---- MODULE Spec2Model ----
\* State-machine model of the two scripts of the repository:
\*   src/dev/agent.ts     the two-node support routing workflow
\*   src/sqltool/index.ts the SQL assistant bootstrap
\* Each script is a top-to-bottom async program; its actions are the pieces of
\* code between two awaits (an awaited external call resolving or rejecting).
EXTENDS Integers, Sequences, FiniteSets, TLC

VARIABLES
  \* ---- src/dev/agent.ts ----
  input,              \* the messages handed to app.stream (agent.ts:110-118)
  messages,           \* state.messages (MessagesAnnotation)
  nextRepresentative, \* state.nextRepresentative
  refundAuthorized,   \* state.refundAuthorized
  pc,                 \* position of the graph run
  supportResponse,    \* local of initialSupport (agent.ts:18)
  llmCalls,           \* the model invocations issued so far: [system, history]
  branch,             \* the edge name the router returned (agent.ts:71,73)
  tasks,              \* the nodes the graph has started, in order
  \* ---- src/sqltool/index.ts ----
  dbUrl,              \* process.env.NEXT_PUBLIC_SUPABASE_DB_URL
  dbTables,           \* the tables of the live database behind dbUrl
  sqlpc,              \* position of the bootstrap script
  datasource,         \* const datasource  (index.ts:13)
  console,            \* the lines written by console.log / console.error
  exitCode,           \* the status the process ends with
  db,                 \* const db          (index.ts:27)
  tools,              \* const tools       (index.ts:33)
  agentExecutor       \* const agentExecutor (index.ts:45)

agentVars == <<input, messages, nextRepresentative, refundAuthorized, pc,
               supportResponse, llmCalls, branch, tasks>>
sqlVars == <<dbUrl, dbTables, sqlpc, datasource, console, exitCode, db, tools, agentExecutor>>
vars == <<input, messages, nextRepresentative, refundAuthorized, pc,
          supportResponse, llmCalls, branch, tasks,
          dbUrl, dbTables, sqlpc, datasource, console, exitCode, db, tools, agentExecutor>>

\* ------------------------------------------------------------------ bounds
\* Longest message history handed to the workflow.
MaxLen == 4
\* Longest run of padding characters put around a label core.
MaxPad == 1

\* ------------------------------------------------------- strings and labels
\* A JavaScript string is a sequence of characters, so that includes() is a
\* substring search and not a comparison of whole strings.
RESPOND == <<"R", "E", "S", "P", "O", "N", "D">>
CERTIFICATION == <<"C", "E", "R", "T", "I", "F", "I", "C", "A", "T", "I", "O", "N">>

\* The value of a state field nobody has written (JavaScript undefined).
Undefined == <<"undefined">>

\* z.enum(["RESPOND", "CERTIFICATION"])
routingSchema == {RESPOND, CERTIFICATION}

\* String.prototype.includes
Includes(s, sub) ==
  \E i \in 1..(Len(s) - Len(sub) + 1) : SubSeq(s, i, i + Len(sub) - 1) = sub

Pads == UNION {[1..n -> {"_"}] : n \in 0..MaxPad}
Cores == {RESPOND, CERTIFICATION, <<>>,
          <<"R", "E", "F", "U", "N", "D">>,
          <<"c", "e", "r", "t", "i", "f", "i", "c", "a", "t", "i", "o", "n">>}
\* The strings a classifier output or a state field may hold.
Labels == {p \o c \o s : p \in Pads, c \in Cores, s \in Pads}

\* ----------------------------------------------------------------- messages
\* The histories are made of user and assistant turns.
MessageTypes == {"human", "ai"}
Contents == {"a", "b"}
Message(t, c) == [type |-> t, content |-> c]
InputMessages == {Message(t, c) : t \in MessageTypes, c \in Contents}
Histories == UNION {[1..n -> InputMessages] : n \in 0..MaxLen}

\* No message yet (an unassigned local).
NoMessage == Message("none", "none")

\* llm.invoke([system prompt, ...history]) answers with one assistant message;
\* its content is tagged with the system prompt that produced it.
AIMessage(system) == Message("ai", system)

\* new HumanMessage(PROMPT.routing.user)
RoutingInstruction == Message("human", "PROMPT.routing.user")

LlmCall(system, history) == [system |-> system, history |-> history]

\* ------------------------------------------------- the workflow's definitions
\* Variant of MessagesReducer: messages declared without a reducer, so that an
\* update overwrites the history.
MessagesOverwrite(left, right) == right

\* The reducer of MessagesAnnotation: an update's messages are appended to the
\* history (a node may return one message or a list; both are appended).
MessagesReducer(left, right) == left \o right

\* A node's return value is a partial update of the state: the messages go
\* through the reducer, every other returned field overwrites the state's.
ApplyUpdate(update) ==
  /\ messages' = IF "messages" \in DOMAIN update
                   THEN MessagesReducer(messages, update.messages)
                   ELSE messages
  /\ nextRepresentative' = IF "nextRepresentative" \in DOMAIN update
                             THEN update.nextRepresentative
                             ELSE nextRepresentative
  /\ refundAuthorized' = IF "refundAuthorized" \in DOMAIN update
                           THEN update.refundAuthorized
                           ELSE refundAuthorized

\* return { messages: [supportResponse], nextRepresentative: ... }
InitialSupportReturn(response, routingResponse) ==
  [messages |-> <<response>>,
   nextRepresentative |-> routingResponse.nextRepresentative]

\* Variant of TrimmedHistory: the last entry is dropped whoever wrote it.
TrimmedHistoryUnconditional(history) == SubSeq(history, 1, Len(history) - 1)

\* trimmedHistory of certificationSupport, for a non-empty history
TrimmedHistory(history) ==
  IF history[Len(history)].type = "ai"
    THEN SubSeq(history, 1, Len(history) - 1)
    ELSE history

\* Variant of CertificationSupportReturn: the node also resets the label.
CertificationSupportReturnResets(response) ==
  [messages |-> <<response>>, nextRepresentative |-> RESPOND]

\* return { messages: response }
CertificationSupportReturn(response) == [messages |-> <<response>>]

\* Variant of Router: the two branches of the condition are exchanged.
RouterInverted(label) ==
  IF Includes(label, CERTIFICATION) THEN "conversational" ELSE "certification"

\* Variant of Router: the label is compared with === instead of includes.
RouterExact(label) ==
  IF label = CERTIFICATION THEN "certification" ELSE "conversational"

\* The function given to addConditionalEdges, for a string label.
Router(label) ==
  IF Includes(label, CERTIFICATION) THEN "certification" ELSE "conversational"

\* Variant of EdgeMap: the two targets are exchanged.
EdgeMapSwapped == [certification |-> "__end__", conversational |-> "certification_support"]

\* The path map given to addConditionalEdges.
EdgeMap == [certification |-> "certification_support", conversational |-> "__end__"]

\* Variant of CertificationEdge: the node is wired back to itself.
CertificationEdgeLoop == "certification_support"

\* addEdge("certification_support", "__end__")
CertificationEdge == "__end__"

\* --------------------------------------------------- the workflow's actions
\* initial_support starts: it issues the reply call and awaits it.
InitialSupportStart ==
  /\ pc = "initial_support"
  /\ tasks' = Append(tasks, "initial_support")
  /\ llmCalls' = Append(llmCalls, LlmCall("PROMPT.init.system", messages))
  /\ pc' = "await_support"
  /\ UNCHANGED <<input, messages, nextRepresentative, refundAuthorized,
                 supportResponse, branch>>
  /\ UNCHANGED sqlVars

\* Variant of SupportReplyResolves: the reply is pushed onto state.messages as
\* soon as it arrives instead of being returned with the node's update.
SupportReplyResolvesPushes ==
  /\ pc = "await_support"
  /\ supportResponse' = AIMessage("PROMPT.init.system")
  /\ messages' = Append(messages, supportResponse')
  /\ llmCalls' = Append(llmCalls,
                   LlmCall("PROMPT.routing.system", messages' \o <<RoutingInstruction>>))
  /\ pc' = "await_routing"
  /\ UNCHANGED <<input, nextRepresentative, refundAuthorized, branch, tasks>>
  /\ UNCHANGED sqlVars

\* The reply call resolves: the node keeps the reply in a local, issues the
\* structured classification call and awaits it.
SupportReplyResolves ==
  /\ pc = "await_support"
  /\ supportResponse' = AIMessage("PROMPT.init.system")
  /\ llmCalls' = Append(llmCalls,
                   LlmCall("PROMPT.routing.system", messages \o <<RoutingInstruction>>))
  /\ pc' = "await_routing"
  /\ UNCHANGED <<input, messages, nextRepresentative, refundAuthorized, branch, tasks>>
  /\ UNCHANGED sqlVars

\* The reply call rejects: the exception leaves the node and the run.
SupportReplyRejects ==
  /\ pc = "await_support"
  /\ pc' = "error"
  /\ UNCHANGED <<input, messages, nextRepresentative, refundAuthorized,
                 supportResponse, llmCalls, branch, tasks>>
  /\ UNCHANGED sqlVars

\* The classification call resolves with an output the schema accepts: the node
\* returns and its update is applied; the conditional edge is next.
RoutingResolves ==
  /\ pc = "await_routing"
  /\ \E output \in Labels :
       /\ output \in routingSchema
       /\ ApplyUpdate(InitialSupportReturn(supportResponse,
                                           [nextRepresentative |-> output]))
  /\ pc' = "router"
  /\ UNCHANGED <<input, supportResponse, llmCalls, branch, tasks>>
  /\ UNCHANGED sqlVars

\* The classification call rejects, or its output is not one of the schema's
\* labels: the exception leaves the node and the run.
RoutingRejects ==
  /\ pc = "await_routing"
  /\ \E output \in Labels \cup {Undefined} : output \notin routingSchema
  /\ pc' = "error"
  /\ UNCHANGED <<input, messages, nextRepresentative, refundAuthorized,
                 supportResponse, llmCalls, branch, tasks>>
  /\ UNCHANGED sqlVars

\* The conditional edge after initial_support: the router reads the label and
\* the path map names the next node. Reading includes of an unset label throws.
Route ==
  /\ pc = "router"
  /\ IF nextRepresentative = Undefined
       THEN /\ pc' = "error"
            /\ branch' = branch
       ELSE /\ branch' = Router(nextRepresentative)
            /\ pc' = EdgeMap[branch']
  /\ UNCHANGED <<input, messages, nextRepresentative, refundAuthorized,
                 supportResponse, llmCalls, tasks>>
  /\ UNCHANGED sqlVars

\* certification_support starts: it trims the history, issues the call and
\* awaits it. at(-1) of an empty history is undefined and _getType throws.
CertificationSupportStart ==
  /\ pc = "certification_support"
  /\ tasks' = Append(tasks, "certification_support")
  /\ IF messages = <<>>
       THEN /\ pc' = "error"
            /\ llmCalls' = llmCalls
       ELSE /\ llmCalls' = Append(llmCalls,
                             LlmCall("PROMPT.certification.system",
                                     TrimmedHistory(messages)))
            /\ pc' = "await_certification"
  /\ UNCHANGED <<input, messages, nextRepresentative, refundAuthorized,
                 supportResponse, branch>>
  /\ UNCHANGED sqlVars

\* The certification call resolves: the node returns, its update is applied and
\* the edge to the end is taken.
CertificationReplyResolves ==
  /\ pc = "await_certification"
  /\ ApplyUpdate(CertificationSupportReturn(AIMessage("PROMPT.certification.system")))
  /\ pc' = CertificationEdge
  /\ UNCHANGED <<input, supportResponse, llmCalls, branch, tasks>>
  /\ UNCHANGED sqlVars

\* The certification call rejects: the exception leaves the node and the run.
CertificationReplyRejects ==
  /\ pc = "await_certification"
  /\ pc' = "error"
  /\ UNCHANGED <<input, messages, nextRepresentative, refundAuthorized,
                 supportResponse, llmCalls, branch, tasks>>
  /\ UNCHANGED sqlVars

\* The run is over: it reached the end or an exception left it.
Terminated == pc \in {"__end__", "error"}

\* -------------------------------------------------------------- the SQL script
TableNames == {"certification", "product", "category", "users"}
Urls == {"undefined", "unreachable", "reachable"}

\* A constant that has not been initialised yet.
Null == [kind |-> "null"]

\* new DataSource({ type: "postgres", url })
DataSource(url, initialized) ==
  [kind |-> "DataSource", url |-> url, isInitialized |-> initialized]

Stdout(text) == [stream |-> "stdout", text |-> text]
Stderr(text) == [stream |-> "stderr", text |-> text]
ConnectedLine == Stdout("connected")
ConnectErrorLine == Stderr("connect error")

\* SqlDatabase.fromDataSourceParams({ appDataSource })
SqlDatabase(source, tables) ==
  [kind |-> "SqlDatabase", appDataSource |-> source, tables |-> tables]

\* new SqlToolkit(db, llm).getTools()
ToolkitTools(database) ==
  [kind |-> "tools",
   list |-> <<[name |-> "query-sql", db |-> database],
              [name |-> "info-sql", db |-> database],
              [name |-> "list-tables-sql", db |-> database],
              [name |-> "query-checker", db |-> database]>>]

\* createReactAgent({ llm, tools })
ReactAgent(toolset) == [kind |-> "agent", llm |-> "GoogleLLM", tools |-> toolset]

\* The script has not been started.
SqlNotStarted ==
  /\ sqlpc = "start"
  /\ datasource = Null
  /\ console = <<>>
  /\ exitCode = 0
  /\ db = Null
  /\ tools = Null
  /\ agentExecutor = Null

\* The script starts: it builds the data source and awaits its initialisation.
SqlConnect ==
  /\ sqlpc = "start"
  /\ datasource' = DataSource(dbUrl, FALSE)
  /\ sqlpc' = "connecting"
  /\ UNCHANGED <<dbUrl, dbTables, console, exitCode, db, tools, agentExecutor>>
  /\ UNCHANGED agentVars

\* initialize() resolves: the success line is logged and the database wrapper
\* is awaited.
ConnectResolves ==
  /\ sqlpc = "connecting"
  /\ dbUrl = "reachable"
  /\ datasource' = DataSource(dbUrl, TRUE)
  /\ console' = Append(console, ConnectedLine)
  /\ sqlpc' = "loading"
  /\ UNCHANGED <<dbUrl, dbTables, exitCode, db, tools, agentExecutor>>
  /\ UNCHANGED agentVars

\* Variant of ConnectRejects: the catch block logs the error and does not exit,
\* so the script goes on to the database wrapper.
ConnectRejectsNoExit ==
  /\ sqlpc = "connecting"
  /\ console' = Append(console, ConnectErrorLine)
  /\ sqlpc' = "loading"
  /\ UNCHANGED <<dbUrl, dbTables, datasource, exitCode, db, tools, agentExecutor>>
  /\ UNCHANGED agentVars

\* initialize() rejects: the catch block logs the error and exits with 1.
ConnectRejects ==
  /\ sqlpc = "connecting"
  /\ console' = Append(console, ConnectErrorLine)
  /\ exitCode' = 1
  /\ sqlpc' = "exited"
  /\ UNCHANGED <<dbUrl, dbTables, datasource, db, tools, agentExecutor>>
  /\ UNCHANGED agentVars

\* fromDataSourceParams resolves: the rest of the script runs without another
\* await: toolkit, tools, the log of the tools, the agent executor.
DatabaseResolves ==
  /\ sqlpc = "loading"
  /\ db' = SqlDatabase(datasource, dbTables)
  /\ tools' = ToolkitTools(db')
  /\ console' = Append(console, Stdout("tools"))
  /\ agentExecutor' = ReactAgent(tools')
  /\ sqlpc' = "done"
  /\ UNCHANGED <<dbUrl, dbTables, datasource, exitCode>>
  /\ UNCHANGED agentVars

\* fromDataSourceParams rejects: nothing catches it and the process ends with
\* the runtime's report of the uncaught exception.
DatabaseRejects ==
  /\ sqlpc = "loading"
  /\ console' = Append(console, Stderr("uncaught"))
  /\ exitCode' = 1
  /\ sqlpc' = "exited"
  /\ UNCHANGED <<dbUrl, dbTables, datasource, db, tools, agentExecutor>>
  /\ UNCHANGED agentVars

\* ------------------------------------------------------------ specifications
\* A run of the workflow: app.stream on a fresh thread with the given messages.
WorkflowStart ==
  /\ messages = input
  /\ nextRepresentative = Undefined
  /\ refundAuthorized = Undefined
  /\ pc = "initial_support"
  /\ supportResponse = NoMessage
  /\ llmCalls = <<>>
  /\ branch = "none"
  /\ tasks = <<>>

\* The SQL script's environment while only the workflow is looked at.
SqlEnvironment ==
  /\ dbUrl = "reachable"
  /\ dbTables = {"certification"}

Init ==
  /\ input \in Histories
  /\ WorkflowStart
  /\ SqlEnvironment
  /\ SqlNotStarted

Next ==
  \/ InitialSupportStart
  \/ SupportReplyResolves
  \/ SupportReplyRejects
  \/ RoutingResolves
  \/ RoutingRejects
  \/ Route
  \/ CertificationSupportStart
  \/ CertificationReplyResolves
  \/ CertificationReplyRejects

Spec == Init /\ [][Next]_vars

\* The run under the claim's assumption that no step the graph can take is put
\* off for ever and every awaited model call returns (resolves or rejects).
Fairness ==
  /\ WF_vars(InitialSupportStart)
  /\ WF_vars(SupportReplyResolves \/ SupportReplyRejects)
  /\ WF_vars(RoutingResolves \/ RoutingRejects)
  /\ WF_vars(Route)
  /\ WF_vars(CertificationSupportStart)
  /\ WF_vars(CertificationReplyResolves \/ CertificationReplyRejects)

FairSpec == Init /\ [][Next]_vars /\ Fairness

\* The two nodes and the router applied to any state: a history of up to MaxLen
\* messages and any label (or none) in nextRepresentative.
InitNodes ==
  /\ input \in Histories
  /\ messages = input
  /\ nextRepresentative \in Labels \cup {Undefined}
  /\ refundAuthorized = Undefined
  /\ pc \in {"initial_support", "router", "certification_support"}
  /\ supportResponse = NoMessage
  /\ llmCalls = <<>>
  /\ branch = "none"
  /\ tasks = <<>>
  /\ SqlEnvironment
  /\ SqlNotStarted

SpecNodes == InitNodes /\ [][Next]_vars

\* The SQL script, for every connection string and database behind it; the
\* workflow stands at the start of the script's scenario.
InitSql ==
  /\ dbUrl \in Urls
  /\ dbTables \in SUBSET TableNames
  /\ SqlNotStarted
  /\ input = <<Message("human", "a")>>
  /\ WorkflowStart

NextSql ==
  \/ SqlConnect
  \/ ConnectResolves
  \/ ConnectRejects
  \/ DatabaseResolves
  \/ DatabaseRejects

SpecSql == InitSql /\ [][NextSql]_vars

\* ================================================================== claims
Last(seq) == seq[Len(seq)]
Range(seq) == {seq[i] : i \in 1..Len(seq)}
AllHuman(history) == \A i \in 1..Len(history) : history[i].type = "human"
InitialReply == [type |-> "ai", content |-> "PROMPT.init.system"]
CertificationReply == [type |-> "ai", content |-> "PROMPT.certification.system"]
\* The model call the run is waiting for.
PendingCall == Last(llmCalls)

\* C1: while certification_support awaits the model, the history it passed is
\* the step's history without its last entry (every earlier entry kept, in
\* order) when that entry is assistant-authored, and the step's history itself
\* when that entry is user-authored.
C1_TrimsOneTrailingAssistant ==
  pc = "await_certification" =>
    /\ PendingCall.system = "PROMPT.certification.system"
    /\ Last(messages).type = "ai" =>
         /\ Len(PendingCall.history) = Len(messages) - 1
         /\ \A i \in 1..(Len(messages) - 1) : PendingCall.history[i] = messages[i]
    /\ Last(messages).type = "human" => PendingCall.history = messages

C1_Witness ==
  /\ pc = "await_certification"
  /\ Len(messages) = 3
  /\ Last(messages).type = "ai"
  /\ messages[1] # messages[2]
  /\ PendingCall.history = <<messages[1], messages[2]>>

\* C2: the router's edge is decided by the label alone: CERTIFICATION takes
\* the 'certification' edge to certification_support, RESPOND takes the
\* 'conversational' edge to the end, whatever the rest of the state is.
C2_RouterFollowsLabel ==
  [][pc = "router" =>
       /\ nextRepresentative = CERTIFICATION =>
            /\ branch' = "certification"
            /\ pc' = "certification_support"
       /\ nextRepresentative = RESPOND =>
            /\ branch' = "conversational"
            /\ pc' = "__end__"
       /\ nextRepresentative' = nextRepresentative
       /\ messages' = messages]_<<pc, branch>>

C2_Witness ==
  /\ nextRepresentative = RESPOND
  /\ branch = "conversational"
  /\ pc = "__end__"
  /\ messages # <<>>

\* C3: once the connection has failed the process has exited with status 1,
\* the error is on standard error and no database wrapper, tool set or agent
\* executor exists; these exist only with an initialised data source.
C3_ConnectFailureExits ==
  /\ ConnectErrorLine \in Range(console) =>
       /\ sqlpc = "exited"
       /\ exitCode = 1
       /\ db = Null /\ tools = Null /\ agentExecutor = Null
       /\ Stdout("tools") \notin Range(console)
  /\ (db # Null \/ tools # Null \/ agentExecutor # Null) =>
       /\ datasource # Null
       /\ datasource.isInitialized
       /\ console[1] = ConnectedLine

C3_Witness ==
  /\ dbUrl = "unreachable"
  /\ sqlpc = "exited"
  /\ console = <<ConnectErrorLine>>

\* C4: a run on user messages that reaches the end with the label
\* CERTIFICATION leaves the input followed by exactly two assistant replies:
\* the initial-support reply, then the certification-support reply.
C4_TwoRepliesInOrder ==
  (pc = "__end__" /\ nextRepresentative = CERTIFICATION /\ AllHuman(input)) =>
    /\ Len(messages) = Len(input) + 2
    /\ SubSeq(messages, 1, Len(input)) = input
    /\ messages[Len(input) + 1] = InitialReply
    /\ messages[Len(input) + 2] = CertificationReply
    /\ Cardinality({i \in 1..Len(messages) : messages[i].type = "ai"}) = 2

C4_Witness ==
  /\ pc = "__end__"
  /\ nextRepresentative = CERTIFICATION
  /\ Len(input) = 1
  /\ AllHuman(input)
  /\ Len(messages) = 3

\* C5: initial_support is the first node and runs once; certification_support
\* runs at most once, after initial_support has returned and only with the label
\* CERTIFICATION; with another label the run ends after initial_support alone;
\* nothing runs after certification_support.
C5_NodeOrder ==
  /\ tasks \in {<<>>, <<"initial_support">>,
                <<"initial_support", "certification_support">>}
  /\ (tasks = <<>>) <=> (pc = "initial_support")
  /\ Len(tasks) = 2 =>
       /\ nextRepresentative = CERTIFICATION
       /\ Len(messages) > Len(input)
       /\ messages[Len(input) + 1] = InitialReply
       /\ pc \in {"await_certification", "__end__", "error"}
  /\ (pc = "__end__" /\ nextRepresentative # CERTIFICATION) =>
       tasks = <<"initial_support">>

C5_Witness ==
  /\ tasks = <<"initial_support", "certification_support">>
  /\ branch = "certification"
  /\ pc = "await_certification"

\* C6: the last entry of every history certification_support presents to the
\* model is a user turn (a presented history with no entry at all is let pass).
C6_LastPresentedIsUser ==
  \A i \in 1..Len(llmCalls) :
    (llmCalls[i].system = "PROMPT.certification.system" /\ llmCalls[i].history # <<>>) =>
      Last(llmCalls[i].history).type = "human"

\* C7 as stated: the router gives no edge to a label outside the enumeration.
C7_NoFallbackBranch ==
  (nextRepresentative # Undefined /\ nextRepresentative \notin routingSchema) =>
    branch = "none"

\* C7 as amended: the router's else branch is a default. A string label outside
\* the enumeration takes the 'conversational' edge to the end, unless it
\* contains CERTIFICATION, and then it takes the 'certification' edge; only an
\* unset label makes the router throw, and then no edge is taken.
C7_RouterDefaultBranch ==
  [][pc = "router" =>
       /\ (nextRepresentative # Undefined /\ nextRepresentative \notin routingSchema) =>
            IF Includes(nextRepresentative, CERTIFICATION)
              THEN branch' = "certification" /\ pc' = "certification_support"
              ELSE branch' = "conversational" /\ pc' = "__end__"
       /\ nextRepresentative = Undefined => (branch' = branch /\ pc' = "error")]_<<pc, branch>>

C7_Witness ==
  /\ nextRepresentative # Undefined
  /\ nextRepresentative \notin routingSchema
  /\ branch = "conversational"
  /\ pc = "__end__"

\* What a failed initial_support leaves behind.
NothingContributed ==
  /\ messages = input
  /\ nextRepresentative = Undefined
  /\ refundAuthorized = Undefined
  /\ branch = "none"
  /\ Len(llmCalls) \in {1, 2}
  /\ \A i \in 1..Len(llmCalls) : llmCalls[i].system # "PROMPT.certification.system"

\* A step in which a model call of initial_support fails changes nothing but pc.
FailureStepIsSilent ==
  (pc \in {"await_support", "await_routing"} /\ pc' = "error") =>
    /\ messages' = messages
    /\ nextRepresentative' = nextRepresentative
    /\ refundAuthorized' = refundAuthorized
    /\ branch' = branch
    /\ tasks' = tasks
    /\ llmCalls' = llmCalls

\* Nothing happens once an exception has left the run.
ErrorIsFinal == pc = "error" => UNCHANGED vars

\* C8: a failure of either model call of initial_support ends the run there:
\* the step has contributed nothing to the state (no reply in messages, no
\* label, even when the reply call had resolved), it is not started again, and
\* neither the router nor certification_support runs.
C8_InitialFailurePropagates ==
  /\ []((pc = "error" /\ tasks = <<"initial_support">>) => NothingContributed)
  /\ [][ErrorIsFinal]_vars
  /\ [][FailureStepIsSilent]_vars

C8_Witness ==
  /\ pc = "error"
  /\ tasks = <<"initial_support">>
  /\ supportResponse = InitialReply
  /\ Len(llmCalls) = 2
  /\ messages = input

\* nextRepresentative changes only when initial_support returns, from unset to
\* a label of the schema.
LabelWrittenByInitialSupport ==
  nextRepresentative' # nextRepresentative =>
    /\ pc = "await_routing"
    /\ nextRepresentative = Undefined
    /\ nextRepresentative' \in routingSchema

\* The return of initial_support writes the label.
InitialSupportWritesLabel ==
  (pc = "await_routing" /\ pc' = "router") => nextRepresentative' # nextRepresentative

\* certification_support writes neither field.
CertificationLeavesFields ==
  pc \in {"certification_support", "await_certification"} =>
    /\ nextRepresentative' = nextRepresentative
    /\ refundAuthorized' = refundAuthorized

\* The router and whatever follows it see a label that has been written.
LabelSetWhenRead ==
  /\ pc \in {"router", "certification_support", "await_certification", "__end__"} =>
       nextRepresentative \in routingSchema
  /\ branch # "none" => nextRepresentative \in routingSchema

\* A run that is over has written the label.
LabelWrittenWhenOver == Terminated => nextRepresentative \in routingSchema

\* A run that a failing model call of initial_support has ended never wrote it.
LabelUnwrittenOnFailure ==
  (pc = "error" /\ tasks = <<"initial_support">>) => nextRepresentative = Undefined

\* C9 as stated: in every run nextRepresentative is written exactly once, by
\* initial_support (so a run that is over has written it), the router reads it
\* only once it is set, certification_support leaves it and refundAuthorized
\* alone, and refundAuthorized is never written.
C9_LabelWrittenExactlyOnce ==
  /\ [][LabelWrittenByInitialSupport]_vars
  /\ [][InitialSupportWritesLabel]_vars
  /\ [][CertificationLeavesFields]_vars
  /\ []LabelSetWhenRead
  /\ [](refundAuthorized = Undefined)
  /\ []LabelWrittenWhenOver

\* C9 as amended: nextRepresentative is written at most once in a run, only by
\* initial_support when it returns: exactly once in a run in which
\* initial_support returns, and not at all in a run that a failing model call
\* of initial_support ends. The router reads it only once it is set;
\* certification_support leaves it and refundAuthorized alone, and
\* refundAuthorized is never written.
C9_LabelWrittenOnce ==
  /\ [][LabelWrittenByInitialSupport]_vars
  /\ [][InitialSupportWritesLabel]_vars
  /\ [][CertificationLeavesFields]_vars
  /\ []LabelSetWhenRead
  /\ [](refundAuthorized = Undefined)
  /\ []LabelUnwrittenOnFailure

C9_Witness ==
  /\ pc = "__end__"
  /\ tasks = <<"initial_support", "certification_support">>
  /\ nextRepresentative = CERTIFICATION
  /\ refundAuthorized = Undefined
  /\ Last(messages) = CertificationReply

\* certification_support leads to the end or to its own failure.
CertificationIsTerminal == pc = "await_certification" => pc' \in {"__end__", "error"}

\* A run that is not over can take a step of the graph or awaits a model call.
OnlyModelCallsBlock ==
  \/ Terminated
  \/ pc \in {"await_support", "await_routing", "await_certification"}
  \/ ENABLED (InitialSupportStart \/ Route \/ CertificationSupportStart)

\* C10: when every awaited model call returns, the run terminates; it never
\* starts more than two nodes; certification_support only leads to the end (or
\* to its failure); and a run that is not over is either about to take a step
\* of the graph or is waiting for a model call.
C10_Terminates ==
  /\ <>Terminated
  /\ [](Len(tasks) <= 2)
  /\ [][CertificationIsTerminal]_pc
  /\ []OnlyModelCallsBlock

C10_Witness ==
  /\ Terminated
  /\ Len(tasks) = 2
  /\ Len(llmCalls) = 3
  /\ Len(messages) = Len(input) + 2

====
